---- MODULE Spec2Model ----
(***************************************************************************)
(* OxideEngine (src/lib.rs): process startup (main, start_server) and the  *)
(* path of a request through the axum router and the tower middleware      *)
(* stack that start_server builds.                                         *)
(*                                                                         *)
(* Startup is one sequential process whose position is pc.  Once it        *)
(* serves, every accepted connection is an independent task of the         *)
(* multi-threaded tokio runtime, so the steps of different connections     *)
(* interleave freely.  Each step of a connection draws the part of the     *)
(* request that the code executing in that step inspects (the router the   *)
(* path, the CORS layer the method, the body-limit layer the               *)
(* Content-Length header).                                                 *)
(***************************************************************************)
EXTENDS Integers, Sequences, FiniteSets, TLC

VARIABLES pc, entry, env, args, world, log, attempts, locals, app_state, conn

vars == <<pc, entry, env, args, world, log, attempts, locals, app_state, conn>>

(* ---- bounds ---- *)
\* Connections the server accepts in a run; they are handled concurrently.
MaxConns == 2

Conns == 1..MaxConns

(* ---- program constants ---- *)
\* RequestBodyLimitLayer::new(1024 * 1024)
BodyLimit == 1048576
\* .timeout(Duration::from_secs(10))
TimeoutSecs == 10

\* start_server(&database_url, &redis_url, "0.0.0.0:3000")
BindAddr == [text |-> "0.0.0.0:3000", octets |-> <<0, 0, 0, 0>>, port |-> 3000]

(* ---- inputs ---- *)
Unset == "<unset>"
NoArg == "<none>"
NoAddr == [text |-> "<none>", octets |-> <<>>, port |-> -1]
NoState == [db_pool |-> "<none>", cache |-> "<none>"]

Urls == {"postgres://db/app", "redis://cache:6379", "not a url"}
EnvValues == Urls \cup {Unset}

\* Address strings a caller of start_server can pass.  octets is the dotted
\* quad the text starts with (empty when it starts with a host name), port
\* the number after the colon (-1 when there is none).
Addrs ==
    { BindAddr,
      [text |-> "0.0.0.0", octets |-> <<0, 0, 0, 0>>, port |-> -1],
      [text |-> "localhost:3000", octets |-> <<>>, port |-> 3000],
      [text |-> "256.0.0.1:3000", octets |-> <<256, 0, 0, 1>>, port |-> 3000],
      [text |-> "0.0.0.0:65536", octets |-> <<0, 0, 0, 0>>, port |-> 65536] }

Scheme(url) ==
    CASE url = "postgres://db/app" -> "postgres"
      [] url = "redis://cache:6379" -> "redis"
      [] OTHER -> ""

\* sqlx::PgPool::connect(database_url): a postgres URL and a server that answers.
PgConnectOk(url, reachable) == Scheme(url) \in {"postgres", "postgresql"} /\ reachable

\* redis::Client::open(redis_url): parses the URL only, connects to nothing.
RedisOpenOk(url) == Scheme(url) \in {"redis", "rediss", "unix", "redis+unix"}

\* server_addr.parse::<SocketAddr>(): an IP literal and a 16-bit port.
ParseOk(a) ==
    /\ Len(a.octets) = 4
    /\ \A i \in 1..4 : a.octets[i] \in 0..255
    /\ a.port \in 0..65535

\* dotenvy::dotenv(): a variable of the .env file is set unless the process
\* environment already has it.
DotenvMerge(e, file) ==
    [k \in DOMAIN e |-> IF e[k] = Unset THEN file[k] ELSE e[k]]

EnvNames == {"DATABASE_URL", "REDIS_URL"}

(* ---- handlers ---- *)
health_check == [status |-> 200, body |-> "Healthy"]

root_handler == [status |-> 200, body |-> "OxideEngine Running"]

\* Mutant: the error route answers 200.
error_handler_ok == [status |-> 200, body |-> "Server Error"]

error_handler == [status |-> 500, body |-> "Server Error"]

IdleConn ==
    [st |-> "idle", path |-> "?", endpoint |-> "?", method |-> "?",
     cl |-> -2, size |-> -1, layers |-> <<>>, status |-> 0, body |-> "", by |-> "?",
     late |-> FALSE]

(* ---- initial state ---- *)
\* Either the process starts at main, or a caller invokes the public
\* start_server directly with arguments of its own (and may have installed a
\* global tracing subscriber before).
Init ==
    /\ world \in [dbReachable : BOOLEAN, portFree : BOOLEAN]
    /\ attempts = [log |-> 0, db |-> 0, cache |-> 0, state |-> 0, parse |-> 0, bind |-> 0]
    /\ locals = [db_pool |-> "<none>", redis_client |-> "<none>", addr |-> NoAddr]
    /\ app_state = NoState
    /\ conn = [c \in Conns |-> IdleConn]
    /\ \/ /\ entry = "main"
          /\ pc = "main"
          /\ env \in [EnvNames -> EnvValues]
          /\ args = [database_url |-> NoArg, redis_url |-> NoArg, server_addr |-> NoAddr]
          /\ log = [installed |-> 0]
       \/ /\ entry = "start_server"
          /\ pc = "start_server"
          /\ env = [k \in EnvNames |-> Unset]
          /\ args \in [database_url : Urls, redis_url : Urls, server_addr : Addrs]
          /\ log \in [installed : {0, 1}]

(* ---- startup: main ---- *)
\* dotenvy::dotenv().ok(): the .env file, when there is one, fills in the
\* variables the process environment lacks; a missing file changes nothing.
main_dotenv ==
    /\ pc = "main"
    /\ \E file \in [EnvNames -> EnvValues] : env' = DotenvMerge(env, file)
    /\ pc' = "read_database_url"
    /\ UNCHANGED <<entry, args, world, log, attempts, locals, app_state, conn>>

\* std::env::var("DATABASE_URL").expect("DATABASE_URL must be set")
main_read_database_url ==
    /\ pc = "read_database_url"
    /\ IF env["DATABASE_URL"] = Unset
          THEN pc' = "panicked" /\ args' = args
          ELSE /\ pc' = "read_redis_url"
               /\ args' = [args EXCEPT !.database_url = env["DATABASE_URL"]]
    /\ UNCHANGED <<entry, env, world, log, attempts, locals, app_state, conn>>

\* std::env::var("REDIS_URL").expect("REDIS_URL must be set")
main_read_redis_url ==
    /\ pc = "read_redis_url"
    /\ IF env["REDIS_URL"] = Unset
          THEN pc' = "panicked" /\ args' = args
          ELSE /\ pc' = "call_start_server"
               /\ args' = [args EXCEPT !.redis_url = env["REDIS_URL"]]
    /\ UNCHANGED <<entry, env, world, log, attempts, locals, app_state, conn>>

\* start_server(&database_url, &redis_url, "0.0.0.0:3000").await
main_call_start_server ==
    /\ pc = "call_start_server"
    /\ args' = [args EXCEPT !.server_addr = BindAddr]
    /\ pc' = "start_server"
    /\ UNCHANGED <<entry, env, world, log, attempts, locals, app_state, conn>>

(* ---- startup: start_server ---- *)
\* Mutant: the subscriber is installed over one that is there already.
init_tracing_unchecked ==
    /\ pc = "start_server"
    /\ attempts' = [attempts EXCEPT !.log = @ + 1]
    /\ log' = [log EXCEPT !.installed = @ + 1]
    /\ pc' = "db_connect"
    /\ UNCHANGED <<entry, env, args, world, locals, app_state, conn>>

\* tracing_subscriber::registry()...init(): installs the global default
\* subscriber, and panics when one is installed already.
init_tracing ==
    /\ pc = "start_server"
    /\ attempts' = [attempts EXCEPT !.log = @ + 1]
    /\ IF log.installed > 0
          THEN pc' = "panicked" /\ log' = log
          ELSE pc' = "db_connect" /\ log' = [log EXCEPT !.installed = @ + 1]
    /\ UNCHANGED <<entry, env, args, world, locals, app_state, conn>>

\* Mutant: a failed connection is tried again.
connect_database_retry ==
    /\ pc = "db_connect"
    /\ attempts.db < 3
    /\ attempts' = [attempts EXCEPT !.db = @ + 1]
    /\ IF PgConnectOk(args.database_url, world.dbReachable)
          THEN /\ locals' = [locals EXCEPT !.db_pool = args.database_url]
               /\ pc' = "cache_open"
          ELSE locals' = locals /\ pc' = "db_connect"
    /\ UNCHANGED <<entry, env, args, world, log, app_state, conn>>

\* let db_pool = sqlx::PgPool::connect(database_url).await?;
connect_database ==
    /\ pc = "db_connect"
    /\ attempts' = [attempts EXCEPT !.db = @ + 1]
    /\ IF PgConnectOk(args.database_url, world.dbReachable)
          THEN /\ locals' = [locals EXCEPT !.db_pool = args.database_url]
               /\ pc' = "cache_open"
          ELSE locals' = locals /\ pc' = "returned_err"
    /\ UNCHANGED <<entry, env, args, world, log, app_state, conn>>

\* let redis_client = redis::Client::open(redis_url)?;
open_cache ==
    /\ pc = "cache_open"
    /\ attempts' = [attempts EXCEPT !.cache = @ + 1]
    /\ IF RedisOpenOk(args.redis_url)
          THEN /\ locals' = [locals EXCEPT !.redis_client = args.redis_url]
               /\ pc' = "build_app"
          ELSE locals' = locals /\ pc' = "returned_err"
    /\ UNCHANGED <<entry, env, args, world, log, app_state, conn>>

\* let app_state = AppState { db_pool, cache: redis_client }; the middleware
\* stack and the router are built around it (no fallible step).
build_app ==
    /\ pc = "build_app"
    /\ attempts' = [attempts EXCEPT !.state = @ + 1]
    /\ app_state' = [db_pool |-> locals.db_pool, cache |-> locals.redis_client]
    /\ pc' = "parse_addr"
    /\ UNCHANGED <<entry, env, args, world, log, locals, conn>>

\* Mutant: a parse failure is ignored and the hard-coded address is used.
parse_addr_unchecked ==
    /\ pc = "parse_addr"
    /\ attempts' = [attempts EXCEPT !.parse = @ + 1]
    /\ locals' = [locals EXCEPT !.addr = IF ParseOk(args.server_addr)
                                            THEN args.server_addr ELSE BindAddr]
    /\ pc' = "bind"
    /\ UNCHANGED <<entry, env, args, world, log, app_state, conn>>

\* let addr: SocketAddr = server_addr.parse()?;
parse_addr ==
    /\ pc = "parse_addr"
    /\ attempts' = [attempts EXCEPT !.parse = @ + 1]
    /\ IF ParseOk(args.server_addr)
          THEN locals' = [locals EXCEPT !.addr = args.server_addr] /\ pc' = "bind"
          ELSE locals' = locals /\ pc' = "returned_err"
    /\ UNCHANGED <<entry, env, args, world, log, app_state, conn>>

\* Server::bind(&addr).serve(app.into_make_service()).await?: hyper's
\* Server::bind panics when the address cannot be bound; once bound, the
\* accept loop runs until the process is killed.
bind_and_serve ==
    /\ pc = "bind"
    /\ attempts' = [attempts EXCEPT !.bind = @ + 1]
    /\ pc' = IF world.portFree THEN "serving" ELSE "panicked"
    /\ UNCHANGED <<entry, env, args, world, log, locals, app_state, conn>>

Startup ==
    \/ main_dotenv
    \/ main_read_database_url
    \/ main_read_redis_url
    \/ main_call_start_server
    \/ init_tracing
    \/ connect_database
    \/ open_cache
    \/ build_app
    \/ parse_addr
    \/ bind_and_serve

(* ---- requests ---- *)
Paths == {"/", "/health", "/error", "/missing"}
\* One method the routes name, one they do not, and the preflight method.
Methods == {"GET", "POST", "OPTIONS"}

NoContentLength == -1

\* What a request carries as its body: cl is the Content-Length header
\* (NoContentLength for a chunked or absent body), size the bytes sent.
Bodies ==
    { [cl |-> NoContentLength, size |-> 0],
      [cl |-> BodyLimit, size |-> BodyLimit],
      [cl |-> BodyLimit + 1, size |-> BodyLimit + 1],
      [cl |-> NoContentLength, size |-> BodyLimit + 1] }

\* Mutant: "/" is registered as a catch-all route.
MatchRoute_catch_all(path) ==
    CASE path = "/health" -> "health_check"
      [] path = "/error" -> "error_handler"
      [] OTHER -> "root_handler"

\* Router::new().route("/", ..).route("/health", ..).route("/error", ..):
\* exact path match, anything else goes to the router's fallback.
MatchRoute(path) ==
    CASE path = "/" -> "root_handler"
      [] path = "/health" -> "health_check"
      [] path = "/error" -> "error_handler"
      [] OTHER -> "fallback"

Handler(endpoint) ==
    CASE endpoint = "root_handler" -> root_handler
      [] endpoint = "health_check" -> health_check
      [] endpoint = "error_handler" -> error_handler

\* get(handler): GET runs the handler, HEAD runs it and drops the body, any
\* other method is answered 405; the fallback answers 404 to every method.
MethodRouter(endpoint, method) ==
    IF endpoint = "fallback"
       THEN [status |-> 404, body |-> "", by |-> "fallback"]
       ELSE IF method = "GET"
               THEN [status |-> Handler(endpoint).status,
                     body |-> Handler(endpoint).body, by |-> endpoint]
               ELSE IF method = "HEAD"
                       THEN [status |-> Handler(endpoint).status, body |-> "", by |-> endpoint]
                       ELSE [status |-> 405, body |-> "", by |-> "method_not_allowed"]

\* CorsLayer::permissive(): an OPTIONS request is a preflight, answered by the
\* layer itself without calling the inner service.
CorsPreflight(method) == method = "OPTIONS"

\* RequestBodyLimitLayer: a Content-Length above the limit is answered 413 at
\* once; otherwise the body is wrapped in a length-limited body, which counts
\* bytes only when something reads it.
LimitRejects(cl) == cl # NoContentLength /\ cl > BodyLimit

\* Polls a handler's future needs before it is ready: the handlers are async
\* functions without an .await.
AwaitPoints(endpoint) == 0

\* tower's Timeout future: the inner future is polled first, the sleep only
\* when the inner future is pending.
TimeoutPoll(pending, elapsed) ==
    IF pending = 0 THEN "ready"
    ELSE IF elapsed >= TimeoutSecs THEN "elapsed" ELSE "pending"

Respond(c, r) ==
    [conn EXCEPT ![c].st = "done", ![c].status = r.status, ![c].body = r.body,
                 ![c].by = r.by, ![c].layers = Append(conn[c].layers, r.by)]

Enter(c, layer, st) ==
    [conn EXCEPT ![c].st = st, ![c].layers = Append(@, layer)]

\* A response that reports an error to the client (or none at all).
ErrorServed(d) == conn[d].st = "done" /\ (conn[d].status >= 400 \/ conn[d].status = 0)

\* hyper accepts a connection and reads a request from it.  late is history:
\* it records that another request had ended in an error by then.
Accept(c) ==
    /\ pc = "serving"
    /\ conn[c].st = "idle"
    /\ conn' = [conn EXCEPT ![c].st = "accepted",
                            ![c].late = \E d \in Conns \ {c} : ErrorServed(d)]
    /\ UNCHANGED <<pc, entry, env, args, world, log, attempts, locals, app_state>>

\* Router::call: the path selects the route (or the fallback); the layers of
\* Router::layer wrap every route and the fallback.
Route(c) ==
    /\ conn[c].st = "accepted"
    /\ \E path \in Paths :
          conn' = [conn EXCEPT ![c].st = "routed", ![c].path = path,
                               ![c].endpoint = MatchRoute(path)]
    /\ UNCHANGED <<pc, entry, env, args, world, log, attempts, locals, app_state>>

\* Mutant: the stack is attached with route_layer, which leaves the fallback
\* bare.
Trace_route_layer(c) ==
    /\ conn[c].st = "routed"
    /\ conn' = IF conn[c].endpoint = "fallback"
                  THEN Respond(c, [status |-> 404, body |-> "", by |-> "fallback"])
                  ELSE Enter(c, "trace", "trace")
    /\ UNCHANGED <<pc, entry, env, args, world, log, attempts, locals, app_state>>

\* TraceLayer::new_for_http()
Trace(c) ==
    /\ conn[c].st = "routed"
    /\ conn' = Enter(c, "trace", "trace")
    /\ UNCHANGED <<pc, entry, env, args, world, log, attempts, locals, app_state>>

\* CorsLayer::permissive()
Cors(c) ==
    /\ conn[c].st = "trace"
    /\ \E method \in Methods :
          LET seen == [Enter(c, "cors", "cors") EXCEPT ![c].method = method]
          IN  IF CorsPreflight(method)
                 THEN conn' = [seen EXCEPT ![c].st = "done", ![c].status = 200,
                                           ![c].body = "", ![c].by = "cors"]
                 ELSE conn' = seen
    /\ UNCHANGED <<pc, entry, env, args, world, log, attempts, locals, app_state>>

\* Mutant: the rejection is returned as an error of the server future.
Limit_fatal(c) ==
    /\ conn[c].st = "cors"
    /\ \E b \in Bodies :
          LET seen == [Enter(c, "limit", "limit") EXCEPT ![c].cl = b.cl, ![c].size = b.size]
          IN  IF LimitRejects(b.cl)
                 THEN /\ conn' = [seen EXCEPT ![c].st = "done", ![c].status = 413,
                                              ![c].body = "length limit exceeded",
                                              ![c].by = "body_limit"]
                      /\ pc' = "returned_err"
                 ELSE conn' = seen /\ pc' = pc
    /\ UNCHANGED <<entry, env, args, world, log, attempts, locals, app_state>>

\* RequestBodyLimitLayer::new(1024 * 1024)
Limit(c) ==
    /\ conn[c].st = "cors"
    /\ \E b \in Bodies :
          LET seen == [Enter(c, "limit", "limit") EXCEPT ![c].cl = b.cl, ![c].size = b.size]
          IN  IF LimitRejects(b.cl)
                 THEN conn' = [seen EXCEPT ![c].st = "done", ![c].status = 413,
                                           ![c].body = "length limit exceeded",
                                           ![c].by = "body_limit"]
                 ELSE conn' = seen
    /\ UNCHANGED <<pc, entry, env, args, world, log, attempts, locals, app_state>>

\* .timeout(Duration::from_secs(10)): Timeout::call arms the sleep and calls
\* the inner service.
TimeoutCall(c) ==
    /\ conn[c].st = "limit"
    /\ conn' = Enter(c, "timeout", "timeout")
    /\ UNCHANGED <<pc, entry, env, args, world, log, attempts, locals, app_state>>

\* Mutant: error_handler panics, which ends the task without a response.
Poll_error_panics(c) ==
    /\ conn[c].st = "timeout"
    /\ conn[c].endpoint # "error_handler"
    /\ conn' = Respond(c, MethodRouter(conn[c].endpoint, conn[c].method))
    /\ UNCHANGED <<pc, entry, env, args, world, log, attempts, locals, app_state>>

\* Mutant: a handler replaces the cache client of the shared state.
Poll_writes_state(c) ==
    /\ conn[c].st = "timeout"
    /\ conn' = Respond(c, MethodRouter(conn[c].endpoint, conn[c].method))
    /\ app_state' = [app_state EXCEPT !.cache = conn[c].path]
    /\ UNCHANGED <<pc, entry, env, args, world, log, attempts, locals>>

\* The task polls the response future: the method router runs the handler
\* inside the Timeout future.  elapsed is the time since TimeoutCall.  When the
\* sleep wins, the service fails with tower's Elapsed error and no handler
\* response is produced.
Poll(c) ==
    /\ conn[c].st = "timeout"
    /\ \E elapsed \in {0, TimeoutSecs - 1, TimeoutSecs, TimeoutSecs + 1} :
          LET outcome == TimeoutPoll(AwaitPoints(conn[c].endpoint), elapsed)
          IN  conn' = CASE outcome = "ready" ->
                             Respond(c, MethodRouter(conn[c].endpoint, conn[c].method))
                        [] outcome = "elapsed" ->
                             Respond(c, [status |-> 0, body |-> "", by |-> "timeout"])
                        [] OTHER -> conn
    /\ UNCHANGED <<pc, entry, env, args, world, log, attempts, locals, app_state>>

Serve(c) ==
    \/ Accept(c)
    \/ Route(c)
    \/ Trace(c)
    \/ Cors(c)
    \/ Limit(c)
    \/ TimeoutCall(c)
    \/ Poll(c)

Next == Startup \/ \E c \in Conns : Serve(c)

Spec == Init /\ [][Next]_vars

\* The tokio scheduler runs every spawned task that can make progress.
FairSpec == Spec /\ \A c \in Conns : WF_vars(Serve(c))

(* ======================= claims ======================= *)
Done(c) == conn[c].st = "done"

FixedPaths == {"/", "/health", "/error"}
RouteHandlers == {"root_handler", "health_check", "error_handler"}
RouterDefaults == {"fallback", "method_not_allowed"}
Chain == <<"trace", "cors", "limit", "timeout">>

IsPrefix(s, t) == Len(s) <= Len(t) /\ \A i \in 1..Len(s) : s[i] = t[i]

FixedResponse(c) ==
    /\ conn[c].path = "/" => conn[c].status = 200 /\ conn[c].body = "OxideEngine Running"
    /\ conn[c].path = "/health" => conn[c].status = 200 /\ conn[c].body = "Healthy"
    /\ conn[c].path = "/error" => conn[c].status = 500 /\ conn[c].body = "Server Error"

\* C1 as stated: every answered GET to "/", "/health" or "/error" carries the
\* fixed status and body of its path, whatever else the request holds.
C1_AnyGetFixed ==
    \A c \in Conns :
        (Done(c) /\ conn[c].method = "GET" /\ conn[c].path \in FixedPaths)
            => FixedResponse(c)

\* C1 amended: every answered GET to "/", "/health" or "/error" whose
\* Content-Length header does not announce more than 1 MiB carries the fixed
\* status and body of its path, whatever was served before it.
C1_GetFixed ==
    \A c \in Conns :
        (Done(c) /\ conn[c].method = "GET" /\ conn[c].path \in FixedPaths
                 /\ conn[c].cl <= BodyLimit)
            => FixedResponse(c)

C1_Witness ==
    \E c \in Conns :
        /\ Done(c) /\ conn[c].late
        /\ conn[c].method = "GET" /\ conn[c].path = "/error" /\ conn[c].cl = BodyLimit
        /\ conn[c].status = 500 /\ conn[c].body = "Server Error"

UnparsableAddrs == {"0.0.0.0", "localhost:3000", "256.0.0.1:3000", "0.0.0.0:65536"}

\* C2: when main finds DATABASE_URL or REDIS_URL unset (after the .env file
\* was loaded), or start_server is given an address string that is no socket
\* address, the process never listens: no bind is attempted, pc never is
\* "serving" and no connection is ever accepted.
C2_FailFast ==
    (\/ entry = "main" /\ pc # "main"
          /\ (env["DATABASE_URL"] = Unset \/ env["REDIS_URL"] = Unset)
     \/ args.server_addr.text \in UnparsableAddrs)
        => /\ pc # "serving"
           /\ attempts.bind = 0
           /\ \A c \in Conns : conn[c].st = "idle"

C2_Witness ==
    \/ pc = "panicked" /\ entry = "main" /\ env["DATABASE_URL"] # Unset
         /\ env["REDIS_URL"] = Unset
    \/ pc = "returned_err" /\ attempts.parse = 1 /\ args.server_addr.text = "localhost:3000"

\* C3: no request whose body is larger than 1 MiB reaches root_handler,
\* health_check or error_handler, and it is answered with a client error.
C3_OversizedRejected ==
    \A c \in Conns :
        conn[c].size > BodyLimit
            => /\ conn[c].by \notin RouteHandlers
               /\ Done(c) => conn[c].status \in 400..499

\* C4 as stated: a request that has ended has its handler's response (a route
\* handler's or the router's default) or the timeout error.
C4_HandlerOrTimeout ==
    \A c \in Conns :
        Done(c) => conn[c].by \in RouteHandlers \cup RouterDefaults \cup {"timeout"}

\* C4 amended: every accepted request eventually ends, with its handler's
\* response, with a response a middleware produced in the handler's place (the
\* CORS preflight answer, the body-limit rejection), or with the timeout error.
C4_EventuallyEnds ==
    \A c \in Conns :
        (conn[c].st = "accepted")
            ~> (Done(c) /\ conn[c].by \in RouteHandlers \cup RouterDefaults
                                          \cup {"cors", "body_limit", "timeout"})

C4_Witness ==
    \E c \in Conns : Done(c) /\ conn[c].by = "body_limit" /\ conn[c].status = 413

\* C5 as stated: every answered request to a path outside the three routes,
\* with any method, has status 404 and was answered by none of the three
\* handlers.
C5_UnmatchedIs404 ==
    \A c \in Conns :
        (Done(c) /\ conn[c].path \notin FixedPaths)
            => conn[c].status = 404 /\ conn[c].by \notin RouteHandlers

\* C5 amended: a request to a path outside the three routes never reaches
\* root_handler, health_check or error_handler, and is answered 404 unless a
\* middleware answers in the router's place: the CORS layer answers an OPTIONS
\* request with 200, the body-limit layer answers a Content-Length above 1 MiB
\* with 413.
C5_Unmatched ==
    \A c \in Conns :
        (Done(c) /\ conn[c].path \notin FixedPaths)
            => /\ conn[c].by \notin RouteHandlers
               /\ conn[c].status = IF conn[c].method = "OPTIONS" THEN 200
                                   ELSE IF conn[c].cl > BodyLimit THEN 413 ELSE 404

C5_Witness ==
    \E c \in Conns :
        Done(c) /\ conn[c].path = "/missing" /\ conn[c].method = "POST"
                /\ conn[c].status = 404

DbFailed == attempts.db = 1 /\ locals.db_pool = "<none>"
CacheFailed == attempts.cache = 1 /\ locals.redis_client = "<none>"
ParseFailed == attempts.parse = 1 /\ locals.addr = NoAddr
BindFailed == attempts.bind = 1 /\ ~world.portFree

NeverListened == pc # "serving" /\ \A c \in Conns : conn[c].st = "idle"

AtMostOnce == \A k \in DOMAIN attempts : attempts[k] <= 1

\* C6 as stated: no startup step is attempted twice, and once the database
\* connection, the cache client construction, the address parse or the bind
\* has failed, start_server has returned an error and the process never
\* listens.
C6_FailureReturnsErr ==
    /\ AtMostOnce
    /\ (DbFailed \/ CacheFailed \/ ParseFailed \/ BindFailed)
          => pc = "returned_err" /\ NeverListened

\* C6 amended: no startup step is attempted twice; once the database
\* connection, the cache client construction or the address parse has failed,
\* start_server has returned an error, and once the bind has failed it has
\* panicked; in both cases the process never listens.
C6_FailureIsFatal ==
    /\ AtMostOnce
    /\ (DbFailed \/ CacheFailed \/ ParseFailed) => pc = "returned_err" /\ NeverListened
    /\ BindFailed => pc = "panicked" /\ NeverListened

C6_Witness == BindFailed /\ pc = "panicked" /\ attempts.db = 1 /\ attempts.parse = 1

C8_LoggingOnceFirst ==
    /\ log.installed <= 1
    /\ attempts.log <= 1
    /\ (attempts.db > 0 \/ attempts.bind > 0 \/ pc = "serving"
          \/ \E c \in Conns : conn[c].st # "idle")
          => log.installed = 1 /\ attempts.log = 1

C8_Witness ==
    /\ log.installed = 1 /\ attempts.log = 1 /\ attempts.db = 1 /\ attempts.bind = 1
    /\ \E c \in Conns : Done(c)

\* C9: every request the router dispatches, whatever its path, enters the
\* stack at the tracing layer; the layers a request has passed are always an
\* initial part of tracing, CORS, body limit, timeout in that order; and a
\* handler (of a route or the router's default) answers only after all four.
C9_ChainOrder ==
    \A c \in Conns :
        /\ conn[c].st \notin {"idle", "accepted", "routed"}
              => Len(conn[c].layers) >= 1 /\ conn[c].layers[1] = "trace"
        /\ IF conn[c].by \in RouteHandlers \cup RouterDefaults
              THEN conn[c].layers = Chain \o <<conn[c].by>>
              ELSE IsPrefix(conn[c].layers, Chain)

C9_Witness ==
    \E c \in Conns :
        /\ Done(c) /\ conn[c].path = "/missing" /\ conn[c].by = "fallback"
        /\ conn[c].layers = <<"trace", "cors", "limit", "timeout", "fallback">>

\* C10: the shared state is built once, before the server listens, from the
\* pool and the client opened at startup, and no step changes it afterwards,
\* however the steps of concurrent requests interleave.
C10_StateImmutable ==
    /\ [](attempts.state <= 1)
    /\ [](pc = "serving"
            => /\ attempts.state = 1
               /\ app_state = [db_pool |-> args.database_url, cache |-> args.redis_url])
    /\ [][app_state # NoState => app_state' = app_state]_vars

C10_Witness ==
    /\ app_state = [db_pool |-> "postgres://db/app", cache |-> "redis://cache:6379"]
    /\ \E c, d \in Conns :
          /\ c # d
          /\ conn[c].st = "timeout"
          /\ Done(d) /\ conn[d].by \in RouteHandlers

====
